---- MODULE Spec2Model ----
(***************************************************************************)
(* retrieve_dem (lib.py): validation of the parameter mapping, construction *)
(* of the request URL with urllib.parse.urlencode, the blocking            *)
(* urllib.request.urlopen call bounded by `timeout`, and the error         *)
(* handlers.                                                                *)
(*                                                                          *)
(* A Python str is a sequence of one-character strings.  A dict is the      *)
(* sequence of its items <<key, value>> in insertion order, keys distinct.  *)
(* A value is a record [kind, s, n]: kind "str" with text s, kind "int"     *)
(* with the integer n, kind "float" with the number n / 10^6.               *)
(***************************************************************************)
EXTENDS Integers, Sequences, FiniteSets, TLC

VARIABLES
    pc,       \* where the call is: "idle", "validate" (line 49), "build" (line 55),
              \* "urlopen" (line 63, about to call), "connecting", "awaiting"
              \* (inside urlopen), "read" (line 64), "except" (lines 65-70),
              \* "returned", "raised"
    params,   \* the params argument
    timeout,  \* the timeout argument, in time units
    url,      \* url of line 59, <<>> until it is built
    calls,    \* how many times urlopen was called
    conn,     \* the connection of the call: "none", "open", "closed"
    waited,   \* time units spent at the current blocking point
    expired,  \* where the timeout expired: "no", "connect", "headers", "read"
    status,   \* the status code the service answered with, 0 before
    body,     \* the body the service sends
    buf,      \* the bytes response.read() has received
    exc,      \* the exception raised inside the try block
    result,   \* the returned bytes
    err       \* the exception retrieve_dem raised

vars == <<pc, params, timeout, url, calls, conn, waited, expired,
          status, body, buf, exc, result, err>>

----------------------------------------------------------------------------
(* Bounds of the model *)

\* extra (non-required) keys a mapping may hold
MaxExtra == 1
\* insertion orders tried for one content: rotations by 0..MaxRotation
MaxRotation == 1
\* the timeout argument ranges over 1..MaxTimeout time units
MaxTimeout == 1
\* response bodies are byte sequences of length 0..MaxBodyLen
MaxBodyLen == 2

----------------------------------------------------------------------------
(* Text *)

Ascii == <<" ","!","\"","#","$","%","&","'","(",")","*","+",",","-",".","/",
           "0","1","2","3","4","5","6","7","8","9",":",";","<","=",">","?",
           "@","A","B","C","D","E","F","G","H","I","J","K","L","M","N","O",
           "P","Q","R","S","T","U","V","W","X","Y","Z","[","\\","]","^","_",
           "GRAVE","a","b","c","d","e","f","g","h","i","j","k","l","m","n","o",
           "p","q","r","s","t","u","v","w","x","y","z","{","|","}","~">>

\* (code 96, the grave accent, has a placeholder: no input holds one)
AsciiChars == {Ascii[i] : i \in 1..Len(Ascii)}

\* ord(c) and chr(n) on printable ASCII
Ord(c) == 31 + (CHOOSE i \in 1..Len(Ascii) : Ascii[i] = c)

Chr(n) == Ascii[n - 31]

HexDigits == <<"0","1","2","3","4","5","6","7","8","9","A","B","C","D","E","F">>

LowerHex == <<"0","1","2","3","4","5","6","7","8","9","a","b","c","d","e","f">>

IsHex(c) == \E i \in 1..16 : HexDigits[i] = c \/ LowerHex[i] = c

HexVal(c) == (CHOOSE i \in 1..16 : HexDigits[i] = c \/ LowerHex[i] = c) - 1

RECURSIVE Concat(_)
\* ''.join(parts)
Concat(parts) ==
    IF parts = <<>> THEN <<>> ELSE Head(parts) \o Concat(Tail(parts))

RECURSIVE Join(_, _)
\* sep.join(parts)
Join(parts, sep) ==
    IF parts = <<>> THEN <<>>
    ELSE IF Len(parts) = 1 THEN parts[1]
    ELSE parts[1] \o sep \o Join(Tail(parts), sep)

RECURSIVE Digits(_)
\* decimal digits of a natural number
Digits(n) ==
    IF n < 10 THEN <<HexDigits[n + 1]>>
    ELSE Digits(n \div 10) \o <<HexDigits[(n % 10) + 1]>>

Abs(n) == IF n < 0 THEN -n ELSE n

\* str(n) for an int
IntStr(n) == IF n < 0 THEN <<"-">> \o Digits(-n) ELSE Digits(n)

RECURSIVE Padded(_, _)
\* the decimal digits of m, zero-padded on the left to width digits
Padded(m, width) ==
    IF width = 0 THEN <<>>
    ELSE Padded(m \div 10, width - 1) \o <<HexDigits[(m % 10) + 1]>>

RECURSIVE Fraction(_, _)
\* the fractional digits of m / 10^width, trailing zeros dropped, one digit kept
Fraction(m, width) ==
    IF width > 1 /\ m % 10 = 0 THEN Fraction(m \div 10, width - 1)
    ELSE Padded(m, width)

\* str(x) for the float x = n / 10^6, with x = 0 or 10^-4 <= |x| < 10^16:
\* the shortest decimal that reads back as x
FloatStr(n) ==
    (IF n < 0 THEN <<"-">> ELSE <<>>)
        \o Digits(Abs(n) \div 1000000) \o <<".">>
        \o Fraction(Abs(n) % 1000000, 6)

StrVal(s) == [kind |-> "str", s |-> s, n |-> 0]

IntVal(n) == [kind |-> "int", s |-> <<>>, n |-> n]

FloatVal(n) == [kind |-> "float", s |-> <<>>, n |-> n]

\* str(v), as urlencode applies it to a value that is not already text
str(v) ==
    CASE v.kind = "str" -> v.s
      [] v.kind = "int" -> IntStr(v.n)
      [] v.kind = "float" -> FloatStr(v.n)

----------------------------------------------------------------------------
(* urllib.parse.urlencode(params), line 58 *)

AlwaysSafe ==
    {"a","b","c","d","e","f","g","h","i","j","k","l","m","n","o","p","q","r",
     "s","t","u","v","w","x","y","z","A","B","C","D","E","F","G","H","I","J",
     "K","L","M","N","O","P","Q","R","S","T","U","V","W","X","Y","Z","0","1",
     "2","3","4","5","6","7","8","9","_",".","-","~"}

quote_char_plus_unescaped(c) ==
    IF c \in AlwaysSafe \cup {"+"} THEN <<c>>
    ELSE IF c = " " THEN <<"+">>
    ELSE <<"%", HexDigits[(Ord(c) \div 16) + 1], HexDigits[(Ord(c) % 16) + 1]>>

\* one character of quote_plus(string, safe=''): unreserved characters stay,
\* a space becomes '+', anything else becomes %XX
quote_char(c) ==
    IF c \in AlwaysSafe THEN <<c>>
    ELSE IF c = " " THEN <<"+">>
    ELSE <<"%", HexDigits[(Ord(c) \div 16) + 1], HexDigits[(Ord(c) % 16) + 1]>>

quote_plus(string) == Concat([i \in 1..Len(string) |-> quote_char(string[i])])

urlencode_unquoted(query) ==
    Join([i \in 1..Len(query) |-> query[i][1] \o <<"=">> \o str(query[i][2])],
         <<"&">>)

\* '&'.join(quote_plus(k) + '=' + quote_plus(str(v)) for k, v in query.items())
urlencode(query) ==
    Join([i \in 1..Len(query) |->
            quote_plus(query[i][1]) \o <<"=">> \o quote_plus(str(query[i][2]))],
         <<"&">>)

----------------------------------------------------------------------------
(* Decoding of a query string.  lib.py does not decode; this is the inverse  *)
(* that the properties about the query string are stated with:              *)
(* urllib.parse.parse_qsl(qs, keep_blank_values=True).                      *)

RECURSIVE Find(_, _, _)
\* string.find(sep, i) from position i, 0 when there is none
Find(string, sep, i) ==
    IF i > Len(string) THEN 0
    ELSE IF string[i] = sep THEN i
    ELSE Find(string, sep, i + 1)

RECURSIVE Split(_, _)
\* string.split(sep) for a one-character separator
Split(string, sep) ==
    LET i == Find(string, sep, 1)
    IN IF i = 0 THEN <<string>>
       ELSE <<SubSeq(string, 1, i - 1)>>
                \o Split(SubSeq(string, i + 1, Len(string)), sep)

RECURSIVE unquote(_)
\* %XX becomes the character of code XX; a malformed escape stays as written
unquote(string) ==
    IF string = <<>> THEN <<>>
    ELSE IF /\ string[1] = "%"
            /\ Len(string) >= 3
            /\ IsHex(string[2])
            /\ IsHex(string[3])
            /\ 16 * HexVal(string[2]) + HexVal(string[3]) \in 32..126
         THEN <<Chr(16 * HexVal(string[2]) + HexVal(string[3]))>>
                  \o unquote(SubSeq(string, 4, Len(string)))
         ELSE <<string[1]>> \o unquote(Tail(string))

\* '+' becomes a space, then unquote
unquote_plus(string) ==
    unquote([i \in 1..Len(string) |-> IF string[i] = "+" THEN " " ELSE string[i]])

\* name, '=', value of one component, cut at the first '='
NameValue(component) ==
    LET nv == Split(component, "=")
    IN <<nv[1], IF Len(nv) = 1 THEN <<>> ELSE Join(Tail(nv), <<"=">>)>>

\* the decoded (name, text) pairs of a query string, in order
parse_qsl(qs) ==
    LET components == SelectSeq(Split(qs, "&"), LAMBDA c : c # <<>>)
        Pair(c) == LET nv == NameValue(c)
                   IN <<unquote_plus(nv[1]), unquote_plus(nv[2])>>
    IN [i \in 1..Len(components) |-> Pair(components[i])]

----------------------------------------------------------------------------
(* The names and texts of lib.py *)

demtype == <<"d","e","m","t","y","p","e">>

south == <<"s","o","u","t","h">>

north == <<"n","o","r","t","h">>

west == <<"w","e","s","t">>

east == <<"e","a","s","t">>

outputFormat == <<"o","u","t","p","u","t","F","o","r","m","a","t">>

API_Key == <<"A","P","I","_","K","e","y">>

required_params_without_API_Key ==
    <<demtype, south, north, west, east, outputFormat>>

\* line 49
required_params == <<demtype, south, north, west, east, outputFormat, API_Key>>

\* line 55: "https://portal.opentopography.org/API/globaldem"
base_url ==
    <<"h","t","t","p","s",":","/","/","p","o","r","t","a","l",".","o","p","e",
      "n","t","o","p","o","g","r","a","p","h","y",".","o","r","g","/","A","P",
      "I","/","g","l","o","b","a","l","d","e","m">>

\* line 53: "Missing required parameters: "
MissingPrefix == <<"M","i","s","s","i","n","g"," ","r","e","q","u","i","r","e","d"," ","p","a","r","a","m","e","t","e","r","s",":"," ">>

\* line 67: "HTTP error "
HttpPrefix == <<"H","T","T","P"," ","e","r","r","o","r"," ">>

\* line 70: "Network error: "
NetworkPrefix == <<"N","e","t","w","o","r","k"," ","e","r","r","o","r",":"," ">>

\* the error kinds: ValidationError, RemoteError, NetworkError of the
\* specification are ValueError, HTTPError, URLError in lib.py; TimeoutError
\* is the socket timeout the transport raises from a blocked read
ValidationError == "ValueError"

RemoteError == "HTTPError"

NetworkError == "URLError"

SocketTimeout == "TimeoutError"

NoError == [kind |-> "none", code |-> 0, url |-> <<>>, msg |-> <<>>]

Error(kind, code, u, msg) == [kind |-> kind, code |-> code, url |-> u, msg |-> msg]

----------------------------------------------------------------------------
(* Inputs *)

\* keys a caller may add beyond the required ones: "units", "a b", "k&=v"
ExtraKeyPool == <<<<"u","n","i","t","s">>, <<"a"," ","b">>, <<"k","&","=","v">>>>

ExtraKeys ==
    [i \in 1..(IF MaxExtra < Len(ExtraKeyPool) THEN MaxExtra ELSE Len(ExtraKeyPool))
        |-> ExtraKeyPool[i]]

AllKeys == required_params \o ExtraKeys

KeySet == {AllKeys[i] : i \in 1..Len(AllKeys)}

\* the values of the docstring's example, lines 35-43
ExampleValue(k) ==
    CASE k = demtype -> StrVal(<<"S","R","T","M","G","L","3">>)
      [] k = south -> FloatVal(-25451567)
      [] k = north -> FloatVal(-25418431)
      [] k = west -> FloatVal(-49308291)
      [] k = east -> FloatVal(-49235979)
      [] k = outputFormat -> StrVal(<<"G","T","i","f","f">>)
      [] k = API_Key -> StrVal(<<"d","e","m","o","a","p","i","k","e","y","o","t","2","0","2","2">>)
      [] OTHER -> StrVal(<<"m">>)

\* other values a key may hold: '', 'a b', 'x&y=z', '+%2B/', 0, -7, 0.0, 0.5
Values ==
    {StrVal(<<>>), StrVal(<<"a"," ","b">>), StrVal(<<"x","&","y","=","z">>), StrVal(<<"+","%","2","B","/">>),
     IntVal(0), IntVal(-7), FloatVal(0), FloatVal(500000)}

\* the dict holding the keys of S, inserted in the order of AllKeys, with the
\* docstring's values except that key k0 holds v0
Mapping(S, k0, v0) ==
    LET keys == SelectSeq(AllKeys, LAMBDA k : k \in S)
    IN [i \in 1..Len(keys) |->
          <<keys[i], IF keys[i] = k0 THEN v0 ELSE ExampleValue(keys[i])>>]

\* the same items inserted in another order: the first r items last
Rotate(items, r) ==
    IF items = <<>> THEN items
    ELSE [i \in 1..Len(items) |-> items[((i - 1 + r) % Len(items)) + 1]]

ParamsInputs ==
    {Rotate(Mapping(S, k0, v0), r) :
        S \in SUBSET KeySet, k0 \in KeySet, v0 \in Values, r \in 0..MaxRotation}
    \cup {Rotate(Mapping(S, <<>>, StrVal(<<>>)), r) :
        S \in SUBSET KeySet, r \in 0..MaxRotation}

Timeouts == 1..MaxTimeout

Bytes == {0, 255}

Bodies == UNION {[1..n -> Bytes] : n \in 0..MaxBodyLen}

\* status codes the service answers with, and their reason phrases
SuccessStatuses == {200}

ErrorStatuses == {404, 500}

ReasonPhrase(code) ==
    CASE code = 404 -> <<"N","o","t"," ","F","o","u","n","d">>
      [] code = 500 -> <<"I","n","t","e","r","n","a","l"," ","S","e","r","v","e","r"," ","E","r","r","o","r">>
      [] OTHER -> <<"O","K">>

\* reasons of a failed connection attempt: refused, name not resolved
ConnectFailures == {<<"C","o","n","n","e","c","t","i","o","n"," ","r","e","f","u","s","e","d">>, <<"N","a","m","e"," ","o","r"," ","s","e","r","v","i","c","e"," ","n","o","t"," ","k","n","o","w","n">>}

TimedOutReason == <<"t","i","m","e","d"," ","o","u","t">>

----------------------------------------------------------------------------
(* retrieve_dem *)

Keys(p) == {p[i][1] : i \in 1..Len(p)}

Get(p, k) == p[CHOOSE i \in 1..Len(p) : p[i][1] = k][2]

Falsy(v) ==
    \/ v.kind = "str" /\ v.s = <<>>
    \/ v.kind # "str" /\ v.n = 0

Holds_truthy(p, k) == k \in Keys(p) /\ ~Falsy(Get(p, k))

\* line 50: param in params
Holds(p, k) == k \in Keys(p)

\* line 50
missing_params(p) == SelectSeq(required_params, LAMBDA param : ~Holds(p, param))

\* line 53: ValueError(f"Missing required parameters: {', '.join(missing_params)}")
MissingError(missing) ==
    Error(ValidationError, 0, <<>>, MissingPrefix \o Join(missing, <<",", " ">>))

query_string_dropping_last(p) ==
    urlencode(IF p = <<>> THEN p ELSE SubSeq(p, 1, Len(p) - 1))

\* line 58
query_string(p) == urlencode(p)

\* line 59: f"{base_url}?{query_string}"
RequestUrl(p) == base_url \o <<"?">> \o query_string(p)

\* isinstance(e, cls): HTTPError is a subclass of URLError
IsInstance(kind, cls) ==
    \/ kind = cls
    \/ kind = RemoteError /\ cls = NetworkError

\* lines 66-68: HTTPError(e.url, e.code, f"HTTP error {e.code}: {e.reason}", ...)
HttpErrorRaised(e) ==
    Error(RemoteError, e.code, e.url,
          HttpPrefix \o IntStr(e.code) \o <<":", " ">> \o e.msg)

\* line 70: URLError(f"Network error: {e.reason}")
UrlErrorRaised(e) == Error(NetworkError, 0, <<>>, NetworkPrefix \o e.msg)

Handled_url_clause_first(e) ==
    IF IsInstance(e.kind, NetworkError) THEN UrlErrorRaised(e)
    ELSE IF IsInstance(e.kind, RemoteError) THEN HttpErrorRaised(e)
    ELSE e

\* lines 65-70: the first except clause that matches; an exception that matches
\* none leaves the function as it is
Handled(e) ==
    IF IsInstance(e.kind, RemoteError) THEN HttpErrorRaised(e)
    ELSE IF IsInstance(e.kind, NetworkError) THEN UrlErrorRaised(e)
    ELSE e

Init ==
    /\ pc = "idle"
    /\ params = <<>>
    /\ timeout = 1
    /\ url = <<>>
    /\ calls = 0
    /\ conn = "none"
    /\ waited = 0
    /\ expired = "no"
    /\ status = 0
    /\ body = <<>>
    /\ buf = <<>>
    /\ exc = NoError
    /\ result = <<>>
    /\ err = NoError

\* line 11: retrieve_dem(params, timeout) is entered
Call(p, t) ==
    /\ pc = "idle"
    /\ pc' = "validate"
    /\ params' = p
    /\ timeout' = t
    /\ UNCHANGED <<url, calls, conn, waited, expired, status, body, buf, exc,
                   result, err>>

\* lines 49-53
Validate ==
    /\ pc = "validate"
    /\ IF missing_params(params) # <<>>
       THEN /\ err' = MissingError(missing_params(params))
            /\ pc' = "raised"
       ELSE /\ pc' = "build"
            /\ UNCHANGED err
    /\ UNCHANGED <<params, timeout, url, calls, conn, waited, expired, status,
                   body, buf, exc, result>>

\* lines 55-59
BuildUrl ==
    /\ pc = "build"
    /\ url' = RequestUrl(params)
    /\ pc' = "urlopen"
    /\ UNCHANGED <<params, timeout, calls, conn, waited, expired, status, body,
                   buf, exc, result, err>>

\* line 63: urlopen(url, timeout=timeout) is called.  The steps inside urlopen
\* are those of one request; a redirect answer is not among them.
UrlOpen ==
    /\ pc = "urlopen"
    /\ calls' = calls + 1
    /\ waited' = 0
    /\ pc' = "connecting"
    /\ UNCHANGED <<params, timeout, url, conn, expired, status, body, buf, exc,
                   result, err>>

Blocked == {"connecting", "awaiting", "read"}

\* a unit of time passes at a blocking point
Wait ==
    /\ pc \in Blocked
    /\ waited < timeout
    /\ waited' = waited + 1
    /\ UNCHANGED <<pc, params, timeout, url, calls, conn, expired, status, body,
                   buf, exc, result, err>>

\* urlopen: the connection attempt fails; urlopen raises URLError(reason)
ConnectFail(reason) ==
    /\ pc = "connecting"
    /\ waited < timeout
    /\ exc' = Error(NetworkError, 0, <<>>, reason)
    /\ pc' = "except"
    /\ UNCHANGED <<params, timeout, url, calls, conn, waited, expired, status,
                   body, buf, result, err>>

\* urlopen: the timeout expires while connecting or sending; urlopen wraps the
\* socket timeout in URLError
ConnectTimeout ==
    /\ pc = "connecting"
    /\ waited = timeout
    /\ exc' = Error(NetworkError, 0, <<>>, TimedOutReason)
    /\ expired' = "connect"
    /\ pc' = "except"
    /\ UNCHANGED <<params, timeout, url, calls, conn, waited, status, body, buf,
                   result, err>>

\* urlopen: connected, request sent, the response is awaited
Connected ==
    /\ pc = "connecting"
    /\ waited < timeout
    /\ conn' = "open"
    /\ waited' = 0
    /\ pc' = "awaiting"
    /\ UNCHANGED <<params, timeout, url, calls, expired, status, body, buf, exc,
                   result, err>>

\* urlopen: the timeout expires while the response's status line and headers
\* are awaited; urlopen closes the connection and the socket timeout leaves it
\* unwrapped
HeadersTimeout ==
    /\ pc = "awaiting"
    /\ waited = timeout
    /\ exc' = Error(SocketTimeout, 0, <<>>, TimedOutReason)
    /\ conn' = "closed"
    /\ expired' = "headers"
    /\ pc' = "except"
    /\ UNCHANGED <<params, timeout, url, calls, waited, status, body, buf,
                   result, err>>

\* urlopen returns the response of a successful status; its body is b
RespondOk(s, b) ==
    /\ pc = "awaiting"
    /\ waited < timeout
    /\ status' = s
    /\ body' = b
    /\ buf' = <<>>
    /\ waited' = 0
    /\ pc' = "read"
    /\ UNCHANGED <<params, timeout, url, calls, conn, expired, exc, result, err>>

\* urlopen raises HTTPError for an error status; the error holds the open
\* response (e.fp)
RespondError(s) ==
    /\ pc = "awaiting"
    /\ waited < timeout
    /\ status' = s
    /\ exc' = Error(RemoteError, s, url, ReasonPhrase(s))
    /\ pc' = "except"
    /\ UNCHANGED <<params, timeout, url, calls, conn, waited, expired, body, buf,
                   result, err>>

\* line 64, response.read(): the next byte of the body arrives
Recv ==
    /\ pc = "read"
    /\ waited < timeout
    /\ Len(buf) < Len(body)
    /\ buf' = Append(buf, body[Len(buf) + 1])
    /\ waited' = 0
    /\ UNCHANGED <<pc, params, timeout, url, calls, conn, expired, status, body,
                   exc, result, err>>

\* line 64: the body has ended, read() returns what it buffered; leaving the
\* with block (line 63) closes the response
ReadDone ==
    /\ pc = "read"
    /\ waited < timeout
    /\ Len(buf) = Len(body)
    /\ result' = buf
    /\ conn' = "closed"
    /\ pc' = "returned"
    /\ UNCHANGED <<params, timeout, url, calls, waited, expired, status, body,
                   buf, exc, err>>

ReadTimeout_returns_partial ==
    /\ pc = "read"
    /\ waited = timeout
    /\ result' = buf
    /\ conn' = "closed"
    /\ expired' = "read"
    /\ pc' = "returned"
    /\ UNCHANGED <<params, timeout, url, calls, waited, status, body, buf, exc,
                   err>>

\* line 64: the timeout expires inside read(); the socket timeout leaves the
\* with block, which closes the response
ReadTimeout ==
    /\ pc = "read"
    /\ waited = timeout
    /\ exc' = Error(SocketTimeout, 0, <<>>, TimedOutReason)
    /\ conn' = "closed"
    /\ expired' = "read"
    /\ pc' = "except"
    /\ UNCHANGED <<params, timeout, url, calls, waited, status, body, buf,
                   result, err>>

Except_retrying ==
    /\ pc = "except"
    /\ IF calls < 2 /\ exc.kind # SocketTimeout
       THEN pc' = "urlopen" /\ UNCHANGED err
       ELSE pc' = "raised" /\ err' = Handled(exc)
    /\ UNCHANGED <<params, timeout, url, calls, conn, waited, expired, status,
                   body, buf, exc, result>>

\* lines 65-70: the exception reaches the except clauses and the function
\* raises
Except ==
    /\ pc = "except"
    /\ err' = Handled(exc)
    /\ pc' = "raised"
    /\ UNCHANGED <<params, timeout, url, calls, conn, waited, expired, status,
                   body, buf, exc, result>>

Next ==
    \/ pc = "idle" /\ \E p \in ParamsInputs, t \in Timeouts : Call(p, t)
    \/ Validate
    \/ BuildUrl
    \/ UrlOpen
    \/ Wait
    \/ \E reason \in ConnectFailures : ConnectFail(reason)
    \/ ConnectTimeout
    \/ Connected
    \/ HeadersTimeout
    \/ \E s \in SuccessStatuses, b \in Bodies : RespondOk(s, b)
    \/ \E s \in ErrorStatuses : RespondError(s)
    \/ Recv
    \/ ReadDone
    \/ ReadTimeout
    \/ Except

Spec == Init /\ [][Next]_vars

----------------------------------------------------------------------------
(* Properties *)

\* the seven required keys, as the specification lists them
SevenKeys == {demtype, south, north, west, east, outputFormat, API_Key}

Absent(p) == {k \in SevenKeys : k \notin Keys(p)}

Entered == pc # "idle"

Ended == pc \in {"returned", "raised"}

\* the URL is built and urlopen is about to be called with it
Requesting == pc = "urlopen"

\* the part of a URL after base_url and '?'
QueryOf(u) == SubSeq(u, Len(base_url) + 2, Len(u))

\* the keys a ValueError message lists after its prefix, separated by ", "
ListedKeys(msg) ==
    LET rest == SubSeq(msg, Len(MissingPrefix) + 1, Len(msg))
        parts == Split(rest, ",")
    IN [i \in 1..Len(parts) |-> IF i = 1 THEN parts[i] ELSE Tail(parts[i])]

\* C1: a call whose mapping lacks one of the seven required keys never builds
\* the URL, never invokes the transport and never opens a connection; it ends
\* by raising the validation error, straight from the validation step.
C1_MissingKeyNoNetwork ==
    (Entered /\ Absent(params) # {}) =>
        /\ pc \in {"validate", "raised"}
        /\ url = <<>>
        /\ calls = 0
        /\ conn = "none"
        /\ pc = "raised" => err.kind = ValidationError

C1_Witness ==
    /\ pc = "raised"
    /\ Absent(params) = {API_Key}
    /\ err.kind = ValidationError
    /\ calls = 0

\* C2: the validation error lists exactly the required keys that the mapping
\* does not hold, each once, whatever the values of the keys it does hold.
C2_ErrorListsAbsentKeys ==
    (pc = "raised" /\ err.kind = ValidationError) =>
        /\ SubSeq(err.msg, 1, Len(MissingPrefix)) = MissingPrefix
        /\ LET listed == ListedKeys(err.msg)
           IN /\ {listed[i] : i \in 1..Len(listed)} = Absent(params)
              /\ Len(listed) = Cardinality(Absent(params))

C2_Witness ==
    /\ pc = "raised"
    /\ err.kind = ValidationError
    /\ Absent(params) = {north, API_Key}
    /\ south \in Keys(params)
    /\ Falsy(Get(params, south))

\* C3: the requested URL is base_url, then '?', then a query string whose
\* decoded (name, value text) pairs are the pairs of the mapping, as a set.
C3_UrlIsBaseAndPairs ==
    Requesting =>
        /\ Len(url) > Len(base_url)
        /\ SubSeq(url, 1, Len(base_url)) = base_url
        /\ url[Len(base_url) + 1] = "?"
        /\ LET pairs == parse_qsl(QueryOf(url))
           IN {pairs[i] : i \in 1..Len(pairs)}
                  = {<<params[i][1], str(params[i][2])>> : i \in 1..Len(params)}

C3_Witness ==
    /\ Requesting
    /\ Absent(params) = {}
    /\ Len(params) > Cardinality(SevenKeys)
    /\ \E i \in 1..Len(params) :
           /\ params[i][2].kind = "str"
           /\ \E j \in 1..Len(params[i][2].s) : params[i][2].s[j] \in {"&", "="}

\* the mapping a decoded query string gives: every value is text
Decoded(qs) ==
    LET pairs == parse_qsl(qs)
    IN [i \in 1..Len(pairs) |-> <<pairs[i][1], StrVal(pairs[i][2])>>]

\* C4 as claimed: decoding the query string gives back the mapping, numbers
\* included.
C4_RoundTripExact == Requesting => Decoded(QueryOf(url)) = params

\* C4 as amended: decoding the query string gives back the keys in insertion
\* order, each with the text str(value) of its value; a value that is text
\* comes back as it was, a number comes back as its decimal text.
C4_RoundTripText ==
    Requesting =>
        LET decoded == Decoded(QueryOf(url))
        IN /\ Len(decoded) = Len(params)
           /\ \A i \in 1..Len(params) :
                 /\ decoded[i][1] = params[i][1]
                 /\ decoded[i][2] = StrVal(str(params[i][2]))
                 /\ params[i][2].kind = "str" => decoded[i][2] = params[i][2]

C4_Witness ==
    /\ Requesting
    /\ \E i \in 1..Len(params) :
           /\ params[i][2].kind = "str"
           /\ \E j \in 1..Len(params[i][2].s) : params[i][2].s[j] \in {"+", "%"}
    /\ \E i \in 1..Len(params) : params[i][2].kind = "float"

\* C5: a call that returns returns the whole body of a successful response and
\* no error; a call that raises returns nothing.
C5_FullBodyOrError ==
    /\ pc = "returned" =>
          /\ result = body
          /\ status \in SuccessStatuses
          /\ err = NoError
          /\ exc = NoError
    /\ pc = "raised" => result = <<>> /\ err # NoError

C5_Witness ==
    /\ pc = "returned"
    /\ Len(body) = 2
    /\ result = body

\* C6 as claimed: a call during which the timeout expired, while connecting or
\* while reading the body, ends by raising NetworkError.
C6_TimeoutIsNetworkError ==
    (Ended /\ expired \in {"connect", "read"}) =>
        pc = "raised" /\ err.kind = NetworkError

\* C7: a call answered with an error status S raises RemoteError with code S,
\* the requested URL and the message "HTTP error S: <reason phrase>", and not
\* NetworkError.
C7_ErrorStatusIsRemoteError ==
    (Ended /\ status \in ErrorStatuses) =>
        /\ pc = "raised"
        /\ err.kind = RemoteError
        /\ err.kind # NetworkError
        /\ err.code = status
        /\ err.url = url
        /\ err.msg = HttpPrefix \o IntStr(status) \o <<":", " ">>
                         \o ReasonPhrase(status)

C7_Witness ==
    /\ pc = "raised"
    /\ status = 500
    /\ err.code = 500
    /\ err.kind = RemoteError

\* C8: the transport is invoked at most once in a call, exactly once in a call
\* with a valid mapping that has ended, and a call in which the transport
\* raised ends by raising.
C8_OneRequestNoRetry ==
    /\ calls <= 1
    /\ (Ended /\ Absent(params) = {}) => calls = 1
    /\ (Ended /\ exc # NoError) => pc = "raised" /\ err # NoError
    /\ pc = "except" => exc # NoError /\ calls = 1

C8_Witness ==
    /\ pc = "raised"
    /\ calls = 1
    /\ err.kind \in {RemoteError, NetworkError}

\* C9 as claimed: no connection is open once the call has ended.
C9_ConnectionReleased == Ended => conn # "open"

\* the base and the set of key=value components of a URL
Components(u) ==
    LET parts == Split(QueryOf(u), "&")
    IN <<SubSeq(u, 1, Len(base_url) + 1), {parts[i] : i \in 1..Len(parts)}>>

\* C10 as claimed: a mapping with the same items inserted in another order
\* requests the same URL.
C10_SameItemsSameUrl ==
    Requesting => \A r \in 0..MaxRotation : RequestUrl(Rotate(params, r)) = url

\* C10 as amended: a mapping with the same items inserted in the same order
\* requests the same URL; inserted in another order it requests a URL with the
\* same base and the same set of key=value components.
C10_SameItemsSameComponents ==
    Requesting =>
        \A r \in 0..MaxRotation :
            LET other == RequestUrl(Rotate(params, r))
            IN /\ Components(other) = Components(url)
               /\ Len(other) = Len(url)
               /\ Rotate(params, r) = params => other = url

C10_Witness ==
    /\ Requesting
    /\ \E r \in 0..MaxRotation :
           /\ Rotate(params, r) # params
           /\ RequestUrl(Rotate(params, r)) # url

====
